---- MODULE Spec2Model ----
(***************************************************************************)
(* Context assembly and prompt construction of the guide backend           *)
(* (backend/llm.py, backend/database.py, backend/main.py).                 *)
(*                                                                         *)
(* A Python str is a sequence of atoms (one-character strings, or one      *)
(* fixed literal of the source taken as a whole).  A message content is a  *)
(* record [kind, s, items]: kind "str" (s is the string), kind "list"      *)
(* (items is the list of items) or kind "other" (s is its json.dumps).     *)
(* A list item is a record [type, text, url]: type "text" (a dict tagged   *)
(* text, text = its 'text' value or '' when absent), "image_url" (a dict   *)
(* tagged image_url, url = the URL or "" when there is none), "other" (a   *)
(* dict with any other tag) or "nondict" (not a dict, text = str(item)).   *)
(***************************************************************************)
EXTENDS Integers, Sequences, FiniteSets, TLC

VARIABLES
    store,      \* the messages table of the quest, in created_at order
    nextId,     \* next message id the store hands out
    turns,      \* background generate_ai_response tasks, by task number
    call,       \* a direct invocation of one helper function: its arguments
    ret         \* ... and what it returned

vars == <<store, nextId, turns, call, ret>>

----------------------------------------------------------------------------
(* Bounds of the model *)

MaxStore == 4       \* messages the store holds
MaxPosts == 3       \* user messages posted
MaxStarted == 1     \* scheduled turns that get to run
MaxImageGens == 2   \* image generation tasks run
MaxHits == 1        \* rows the similarity query answers a turn with
MaxItems == 2       \* items in one content list handed to the normalizer
MaxSelLog == 8      \* messages of a log handed to the selector
MaxRelevant == 6    \* messages the similarity service answers the selector with
MaxTurnLog == 2     \* messages of the log a single scheduled turn is run over
MaxArr == 5         \* elements of a JSON array the suggestion call answers with

----------------------------------------------------------------------------
(* Strings *)

EmptyStr == <<>>
IsSpaceChar(c) == c \in {" ", "\n"}
\* str.isspace(): non-empty and whitespace only
isspace(s) == Len(s) > 0 /\ \A i \in 1..Len(s) : IsSpaceChar(s[i])

RECURSIVE JoinLines(_)
\* '\n'.join(text_parts)
JoinLines(ss) ==
    IF ss = <<>> THEN EmptyStr
    ELSE IF Len(ss) = 1 THEN ss[1]
    ELSE ss[1] \o <<"\n">> \o JoinLines(Tail(ss))

----------------------------------------------------------------------------
(* Content values *)

StrContent(s) == [kind |-> "str", s |-> s, items |-> <<>>]
ListContent(items) == [kind |-> "list", s |-> EmptyStr, items |-> items]
OtherContent(dumped) == [kind |-> "other", s |-> dumped, items |-> <<>>]

TextItem(t) == [type |-> "text", text |-> t, url |-> ""]
ImageItem(u) == [type |-> "image_url", text |-> EmptyStr, url |-> u]
OtherItem == [type |-> "other", text |-> EmptyStr, url |-> ""]
NonDictItem(repr) == [type |-> "nondict", text |-> repr, url |-> ""]

TextPart(t) == [k |-> "text", text |-> t, mime |-> ""]
InlinePart(m) == [k |-> "inline_data", text |-> EmptyStr, mime |-> m]

ImagePlaceholder == <<"[Image could not be loaded]">>

\* extractTextContent: the text parts of a list joined by newlines
TextPartsOf(items) ==
    LET texts == SelectSeq(items, LAMBDA it : it.type = "text")
    IN  [i \in 1..Len(texts) |-> texts[i].text]

extractTextContent(content) ==
    IF content.kind = "str" THEN content.s
    ELSE IF content.kind = "list" THEN JoinLines(TextPartsOf(content.items))
    ELSE content.s

----------------------------------------------------------------------------
(* Image fetch.  A URL is named by what mimetypes.guess_type makes of it;  *)
(* a response is how the GET ended and the content-type header it carried. *)

Urls == {"x/y.png", "x/y.html", "x/y"}
guess_type(u) ==
    IF u = "x/y.png" THEN "image/png"
    ELSE IF u = "x/y.html" THEN "text/html"
    ELSE "none"

ImageMimes == {"image/png", "image/jpeg"}
startswith_image(m) == m \in ImageMimes

FetchResponses ==
    { [net |-> "error", ctype |-> "none"],          \* client.get raised
      [net |-> "status", ctype |-> "text/html"],    \* raise_for_status raised
      [net |-> "ok", ctype |-> "image/jpeg"],
      [net |-> "ok", ctype |-> "text/html"],
      [net |-> "ok", ctype |-> "none"] }
NoFetch == [net |-> "unused", ctype |-> "none"]

ImageData(m) == [kind |-> "data", mime |-> m]
NoneData == [kind |-> "none", mime |-> ""]
RaisedData == [kind |-> "raise", mime |-> ""]

\* the body of fetch_image_data's try block: RaisedData where it raises
fetch_body(image_url, resp) ==
    IF resp.net # "ok" THEN RaisedData
    ELSE LET guess == guess_type(image_url)
             mime_type == IF guess # "none" THEN guess ELSE resp.ctype
         IN  IF mime_type = "none" \/ ~startswith_image(mime_type)
             THEN NoneData
             ELSE ImageData(mime_type)

fetch_image_data_unguarded(image_url, resp) == fetch_body(image_url, resp)

fetch_image_data(image_url, resp) ==
    LET r == fetch_body(image_url, resp)
    IN  IF r.kind = "raise" THEN NoneData ELSE r

----------------------------------------------------------------------------
(* format_content_for_gemini *)

NeedsFetch(item) == item.type = "image_url" /\ item.url # ""

\* the blocks one dict item adds; raised when the fetch let an exception out
DictItemParts(item, resp) ==
    IF item.type = "text" /\ item.text # EmptyStr
    THEN [raised |-> FALSE, parts |-> <<TextPart(item.text)>>]
    ELSE IF NeedsFetch(item)
    THEN LET image_data == fetch_image_data(item.url, resp)
         IN  IF image_data.kind = "raise"
             THEN [raised |-> TRUE, parts |-> <<>>]
             ELSE IF image_data.kind = "data"
             THEN [raised |-> FALSE, parts |-> <<InlinePart(image_data.mime)>>]
             ELSE [raised |-> FALSE, parts |-> <<TextPart(ImagePlaceholder)>>]
    ELSE [raised |-> FALSE, parts |-> <<>>]

ItemParts(item, resp) ==
    IF item.type = "nondict"
    THEN [raised |-> FALSE, parts |-> <<TextPart(item.text)>>]
    ELSE DictItemParts(item, resp)

RECURSIVE ListParts(_, _, _)
\* the for loop over content, from item i on; fetch[i] answers item i's GET
ListParts(items, fetch, i) ==
    IF i > Len(items) THEN [raised |-> FALSE, parts |-> <<>>]
    ELSE LET head == ItemParts(items[i], fetch[i])
         IN  IF head.raised THEN head
             ELSE LET rest == ListParts(items, fetch, i + 1)
                  IN  [raised |-> rest.raised,
                       parts |-> IF rest.raised THEN <<>>
                                 ELSE head.parts \o rest.parts]

format_content_for_gemini(content, fetch) ==
    IF content.kind = "str"
    THEN [raised |-> FALSE, parts |-> <<TextPart(content.s)>>]
    ELSE IF content.kind = "list" THEN ListParts(content.items, fetch, 1)
    ELSE [raised |-> FALSE, parts |-> <<TextPart(content.s)>>]

\* the answers the network can give to the GETs of a content: one per item
\* that is fetched, NoFetch elsewhere
FetchChoices(content) ==
    { f \in [1..Len(content.items) -> FetchResponses \cup {NoFetch}] :
        \A i \in 1..Len(content.items) :
            (f[i] = NoFetch) <=> ~NeedsFetch(content.items[i]) }

----------------------------------------------------------------------------
(* Suggestion parsing: str.strip / lstrip / rstrip and json.loads.  The    *)
(* characters of a text are atoms; a JSON string literal is one atom.      *)

StrLits == {"'a'", "'b'"}           \* the JSON string literals "a" and "b"
Digit == "7"
WsChars == {" ", "\n"}
Tick == "tick"                      \* the backquote character
FenceChars == {Tick, "j", "s", "o", "n"}    \* lstrip's argument: 3 backquotes, json
TickChars == {Tick}                         \* rstrip's argument: 3 backquotes

RECURSIVE lstrip(_, _)
\* str.lstrip(chars): drop leading characters that are in chars
lstrip(t, chars) ==
    IF t # <<>> /\ Head(t) \in chars THEN lstrip(Tail(t), chars) ELSE t

RECURSIVE rstrip(_, _)
rstrip(t, chars) ==
    IF t # <<>> /\ t[Len(t)] \in chars
    THEN rstrip(SubSeq(t, 1, Len(t) - 1), chars) ELSE t

strip(t) == rstrip(lstrip(t, WsChars), WsChars)

\* suggestion_response.text.strip().lstrip(fence).rstrip(ticks).strip()
raw_json_of(text) == strip(rstrip(lstrip(strip(text), FenceChars), TickChars))


RECURSIVE SkipWs(_, _)
SkipWs(t, i) == IF i <= Len(t) /\ t[i] \in WsChars THEN SkipWs(t, i + 1) ELSE i

RECURSIVE SkipDigits(_, _)
SkipDigits(t, i) == IF i <= Len(t) /\ t[i] = Digit THEN SkipDigits(t, i + 1) ELSE i

ParseFail == [ok |-> FALSE, t |-> "none", v |-> <<>>, next |-> 0]
Parsed(type, v, next) == [ok |-> TRUE, t |-> type, v |-> v, next |-> next]

RECURSIVE ParseValue(_, _), ParseElems(_, _, _)
\* one JSON value starting at position i (no leading whitespace)
ParseValue(t, i) ==
    IF i > Len(t) THEN ParseFail
    ELSE IF t[i] \in StrLits THEN Parsed("str", <<t[i]>>, i + 1)
    ELSE IF t[i] = Digit THEN Parsed("num", <<>>, SkipDigits(t, i))
    ELSE IF t[i] = "["
    THEN LET j == SkipWs(t, i + 1)
         IN  IF j <= Len(t) /\ t[j] = "]" THEN Parsed("arr", <<>>, j + 1)
             ELSE ParseElems(t, j, <<>>)
    ELSE ParseFail

\* the elements of an array from position i on, acc those already read
ParseElems(t, i, acc) ==
    LET v == ParseValue(t, i)
    IN  IF ~v.ok THEN ParseFail
        ELSE LET j == SkipWs(t, v.next)
                 elems == Append(acc, [t |-> v.t, v |-> v.v])
             IN  IF j > Len(t) THEN ParseFail
                 ELSE IF t[j] = "," THEN ParseElems(t, SkipWs(t, j + 1), elems)
                 ELSE IF t[j] = "]" THEN Parsed("arr", elems, j + 1)
                 ELSE ParseFail

\* json.loads: one value, whitespace around it, nothing else; ~ok is the
\* JSONDecodeError
json_loads(t) ==
    LET v == ParseValue(t, SkipWs(t, 1))
    IN  IF v.ok /\ SkipWs(t, v.next) > Len(t) THEN v ELSE ParseFail

Min(a, b) == IF a < b THEN a ELSE b

cap3(suggestions) == SubSeq(suggestions, 1, Min(3, Len(suggestions)))

\* suggestions[:4]
cap(suggestions) == SubSeq(suggestions, 1, Min(4, Len(suggestions)))

\* isinstance(suggestions, list) and all(isinstance(s, str) for s in suggestions)
is_str_list(v) == v.t = "arr" /\ \A i \in 1..Len(v.v) : v.v[i].t = "str"

\* a parsed list of strings as the Python list of their literals
StrListOf(v) == [i \in 1..Len(v.v) |-> v.v[i].v[1]]

\* what the suggestion call gave: it raised, reading .text raised, or a text
SuggRaise == [kind |-> "raise", text |-> <<>>]
SuggTextRaise == [kind |-> "textraise", text |-> <<>>]
SuggText(t) == [kind |-> "text", text |-> t]

\* the try block of generate_followup_suggestions, given the call's outcome
parse_suggestions(outcome) ==
    IF outcome.kind # "text" THEN <<>>
    ELSE LET suggestions == json_loads(raw_json_of(outcome.text))
         IN  IF ~suggestions.ok THEN <<>>
             ELSE IF is_str_list(suggestions) THEN cap(StrListOf(suggestions))
             ELSE <<>>

Turn(role, parts) == [role |-> role, parts |-> parts]
TextTurn(role, t) == Turn(role, <<TextPart(t)>>)

SuggestInstruction == <<"Based on our conversation and my last response, suggest 3 ...">>

\* suggestion_prompt = [*history, model(latest_response), user(instruction)]
suggestion_prompt_of(history, latest_response) ==
    history \o <<TextTurn("model", latest_response),
                 TextTurn("user", SuggestInstruction)>>

generate_followup_suggestions(history, latest_response, outcome) ==
    [prompt |-> suggestion_prompt_of(history, latest_response),
     suggestions |-> parse_suggestions(outcome)]

----------------------------------------------------------------------------
(* Messages and context selection (generate_ai_response, lines 140-147) *)

NoMetadata == [has |-> FALSE, suggestions |-> <<>>]
Metadata(suggestions) == [has |-> TRUE, suggestions |-> suggestions]

Message(id, role, content, embedding, metadata) ==
    [id |-> id, role |-> role, content |-> content,
     embedding |-> embedding, metadata |-> metadata]

MAX_CONTEXT_MSGS == 7
RecentWindow == 3       \* messages_db[-3:]
match_count == 3        \* find_relevant_messages(..., match_count=3)

Max(a, b) == IF a > b THEN a ELSE b

last_two(messages_db) ==
    SubSeq(messages_db, Max(1, Len(messages_db) - 1), Len(messages_db))

\* the recency window of the last five messages
last_five(messages_db) ==
    SubSeq(messages_db, Max(1, Len(messages_db) - 4), Len(messages_db))

\* recent_messages = messages_db[-3:]
recent_messages_of(messages_db) ==
    SubSeq(messages_db, Max(1, Len(messages_db) - RecentWindow + 1), Len(messages_db))

IdsOf(msgs) == {msgs[i].id : i \in 1..Len(msgs)}


RECURSIVE append_unseen(_, _)
\* for msg in msgs: if msg.id not in combined_context_ids: append, add the id
append_unseen(acc, msgs) ==
    IF msgs = <<>> THEN acc
    ELSE IF Head(msgs).id \in IdsOf(acc) THEN append_unseen(acc, Tail(msgs))
    ELSE append_unseen(Append(acc, Head(msgs)), Tail(msgs))

keep_all(context) == context

\* if len(context) > MAX_CONTEXT_MSGS: context = context[-MAX_CONTEXT_MSGS:]
truncate_context(context) ==
    IF Len(context) > MAX_CONTEXT_MSGS
    THEN SubSeq(context, Len(context) - MAX_CONTEXT_MSGS + 1, Len(context))
    ELSE context

\* the merge with the recency window put before the similarity results
select_recent_first(messages_db, relevant_messages) ==
    LET recent_messages == recent_messages_of(messages_db)
        merged == append_unseen(append_unseen(<<>>, recent_messages), relevant_messages)
    IN  [recent_messages |-> recent_messages,
         merged |-> merged,
         context |-> truncate_context(merged)]

\* lines 140-147: the recency window, the merged list and the selected context
select_context(messages_db, relevant_messages) ==
    LET recent_messages == recent_messages_of(messages_db)
        merged == append_unseen(append_unseen(<<>>, relevant_messages), recent_messages)
    IN  [recent_messages |-> recent_messages,
         merged |-> merged,
         context |-> truncate_context(merged)]

\* the history with a turn for every message, its text empty or not
RECURSIVE format_history_keep_empty(_)
format_history_keep_empty(db_messages) ==
    IF db_messages = <<>> THEN <<>>
    ELSE <<TextTurn(Head(db_messages).role, extractTextContent(Head(db_messages).content))>>
             \o format_history_keep_empty(Tail(db_messages))

\* format_history_for_gemini: one text turn per message with a non-empty text
RECURSIVE format_history_for_gemini(_)
format_history_for_gemini(db_messages) ==
    IF db_messages = <<>> THEN <<>>
    ELSE LET msg == Head(db_messages)
             text_content == extractTextContent(msg.content)
             rest == format_history_for_gemini(Tail(db_messages))
         IN  IF text_content # EmptyStr
             THEN <<TextTurn(msg.role, text_content)>> \o rest
             ELSE rest

----------------------------------------------------------------------------
(* Prompt assembly (generate_ai_response, lines 159-170) *)

DEFAULT_SYSTEM_PROMPT == <<"**Role**: You are a nurturing parent ...">>
CustomPrompt == <<"custom guide prompt">>
Acknowledgement == <<"Understood. I'm ready to guide the child.">>
Filler == <<"Okay.">>

\* the history with its leading turn kept whatever its role
keep_leading(formatted_history) == formatted_history

\* if history_to_append and history_to_append[0]['role'] == 'user': drop it
drop_leading_user(formatted_history) ==
    IF formatted_history # <<>> /\ formatted_history[1].role = "user"
    THEN Tail(formatted_history)
    ELSE formatted_history

RECURSIVE walk_stale(_, _, _, _)
\* the walk with last_role never updated
walk_stale(history_to_append, i, last_role, acc) ==
    IF i > Len(history_to_append) THEN acc
    ELSE IF history_to_append[i].role = last_role
    THEN walk_stale(history_to_append, i + 1, last_role,
                    [acc EXCEPT !.skipped = @ \cup {i}])
    ELSE walk_stale(history_to_append, i + 1, last_role,
                    [acc EXCEPT !.accepted = Append(@, history_to_append[i])])

RECURSIVE walk(_, _, _, _)
\* the for loop of lines 166-168 from index i on; acc holds the turns
\* appended to final_prompt so far and the indices skipped
walk(history_to_append, i, last_role, acc) ==
    IF i > Len(history_to_append) THEN acc
    ELSE IF history_to_append[i].role = last_role
    THEN walk(history_to_append, i + 1, last_role,
              [acc EXCEPT !.skipped = @ \cup {i}])
    ELSE walk(history_to_append, i + 1, history_to_append[i].role,
              [acc EXCEPT !.accepted = Append(@, history_to_append[i])])

no_filler(prompt) == prompt

\* if final_prompt[-1]['role'] == 'user': append the model filler turn
add_filler(prompt) ==
    IF prompt[Len(prompt)].role = "user"
    THEN Append(prompt, TextTurn("model", Filler))
    ELSE prompt

\* lines 159-170
assemble(effective_system_prompt, formatted_history, latest_user_parts) ==
    LET preamble == <<TextTurn("user", effective_system_prompt),
                      TextTurn("model", Acknowledgement)>>
        history_to_append == drop_leading_user(formatted_history)
        walked == walk(history_to_append, 1, "model",
                       [accepted |-> <<>>, skipped |-> {}])
    IN  [history_to_append |-> history_to_append,
         skipped |-> walked.skipped,
         accepted |-> walked.accepted,
         final_prompt |-> Append(add_filler(preamble \o walked.accepted),
                                 Turn("user", latest_user_parts))]

----------------------------------------------------------------------------
(* The store (database.py) *)

\* get_messages_by_quest: the log in created_at order; [] when the quest is
\* not the caller's or the query raises
get_messages_by_quest(messages, ok) == IF ok THEN messages ELSE <<>>

\* find_relevant_messages: the rows of the RPC; [] when it raises
find_relevant_messages(rpc) == IF rpc.failed THEN <<>> ELSE rpc.rows


\* add_message: the table after the insert and the row returned; the table
\* is unchanged and None is returned when the insert fails or raises
add_message(messages, id, role, content, embedding, metadata, ok) ==
    IF ok
    THEN [messages |-> Append(messages, Message(id, role, content, embedding, metadata)),
          returned |-> TRUE]
    ELSE [messages |-> messages, returned |-> FALSE]

----------------------------------------------------------------------------
(* generate_ai_response, one step per state of the turn *)

\* generate_embedding: None without a call for an empty or whitespace text,
\* else what the embedding service gives (None when it fails)
generate_embedding(text_content, service_ok) ==
    IF text_content = EmptyStr \/ isspace(text_content)
    THEN [called |-> FALSE, embedding |-> FALSE]
    ELSE [called |-> TRUE, embedding |-> service_ok]

\* get_system_prompt: the custom prompt when the lookup gives one
get_system_prompt(custom) == IF custom THEN CustomPrompt ELSE DEFAULT_SYSTEM_PROMPT

NoMessage == Message(0, "none", StrContent(EmptyStr), FALSE, NoMetadata)

NoCalls ==
    [load |-> 0, embed_query |-> 0, similarity |-> 0, fetch |-> 0, persona |-> 0,
     generate |-> 0, suggest |-> 0, embed_response |-> 0, write |-> 0]

\* what the collaborators answered during the turn, for the record
NoAnswers ==
    [load |-> "none", query_embedding |-> "none", normalize |-> "none", similarity |-> "none", generate |-> "none",
     suggest |-> "none", response_embedding |-> "none", write |-> "none"]

\* a task as add_new_message schedules it: the locals of generate_ai_response
\* before its first line ran
NewTurn(trigger) ==
    [pc |-> "dispatched", trigger |-> trigger, failed_at |-> "none",
     messages_db |-> <<>>, latest_user_message |-> NoMessage,
     latest_user_content_text |-> EmptyStr,
     context_messages_for_history |-> <<>>, formatted_history |-> <<>>,
     latest_user_parts |-> <<>>, final_prompt |-> <<>>,
     ai_response_text |-> EmptyStr, suggestion_prompt |-> <<>>,
     suggestions |-> <<>>,
     calls |-> NoCalls, answers |-> NoAnswers]

\* the function has returned: its locals are gone, the record of its calls stays
Returned(t, pc, failed_at) ==
    [NewTurn(t.trigger) EXCEPT !.pc = pc, !.failed_at = failed_at,
                               !.calls = t.calls, !.answers = t.answers]

Failed(t, step) == Returned(t, "failed", step)

\* an exception that leaves generate_ai_response for the task runner
propagate(t, step) == Returned(t, "raised", step)

\* lines 190-191: an exception of the try block is logged and swallowed
except_Exception(t, step) == Failed(t, step)

RECURSIVE latest_user_of(_)
\* next((msg for msg in reversed(messages_db) if msg.role == 'user'), None)
latest_user_of(messages_db) ==
    IF messages_db = <<>> THEN NoMessage
    ELSE IF messages_db[Len(messages_db)].role = "user"
    THEN messages_db[Len(messages_db)]
    ELSE latest_user_of(SubSeq(messages_db, 1, Len(messages_db) - 1))

\* what the load of line 129 gave: no message, no user message, or a log
\* with a user message
load_answer(messages_db) ==
    IF messages_db = <<>> THEN "empty"
    ELSE IF latest_user_of(messages_db) = NoMessage THEN "nouser"
    ELSE "ok"

\* the load without the two early returns of lines 130 and 132
fetch_history_unchecked(t, messages_db) ==
    [t EXCEPT
       !.calls.load = @ + 1,
       !.answers.load = load_answer(messages_db),
       !.pc = "select_context",
       !.messages_db = messages_db,
       !.latest_user_message = latest_user_of(messages_db),
       !.latest_user_content_text =
           extractTextContent(latest_user_of(messages_db).content)]

\* lines 129-135
fetch_history(t, messages_db) ==
    LET loaded == [t EXCEPT !.calls.load = @ + 1,
                            !.answers.load = load_answer(messages_db)]
    IN  IF messages_db = <<>> THEN Failed(loaded, "fetch_history")
        ELSE IF latest_user_of(messages_db) = NoMessage
        THEN Failed(loaded, "fetch_history")
        ELSE [loaded EXCEPT
                !.pc = "select_context",
                !.messages_db = messages_db,
                !.latest_user_message = latest_user_of(messages_db),
                !.latest_user_content_text =
                    extractTextContent(latest_user_of(messages_db).content)]

\* lines 136-149; service_ok answers the embedding call, rpc the similarity query
select_step(t, service_ok, rpc) ==
    LET query_embedding == generate_embedding(t.latest_user_content_text, service_ok)
        relevant_messages ==
            IF query_embedding.embedding THEN find_relevant_messages(rpc) ELSE <<>>
        selected == select_context(t.messages_db, relevant_messages)
    IN  [t EXCEPT
           !.pc = "normalize_latest",
           !.context_messages_for_history = selected.context,
           !.formatted_history = format_history_for_gemini(selected.context),
           !.calls.embed_query = @ + (IF query_embedding.called THEN 1 ELSE 0),
           !.calls.similarity = @ + (IF query_embedding.embedding THEN 1 ELSE 0),
           !.answers.query_embedding =
               IF query_embedding.embedding THEN "ok" ELSE "absent",
           !.answers.similarity =
               IF ~query_embedding.embedding THEN "skipped"
               ELSE IF rpc.failed THEN "failed" ELSE "ok"]

FetchCount(content) ==
    Cardinality({i \in 1..Len(content.items) : NeedsFetch(content.items[i])})

\* line 152 without the early return of line 153
normalize_step_unchecked(t, fetch) ==
    LET r == format_content_for_gemini(t.latest_user_message.content, fetch)
    IN  [t EXCEPT !.calls.fetch = @ + FetchCount(t.latest_user_message.content),
                  !.answers.normalize = IF r.parts = <<>> THEN "empty" ELSE "ok",
                  !.pc = "assemble_prompt",
                  !.latest_user_parts = r.parts]

\* lines 152-153
normalize_step(t, fetch) ==
    LET r == format_content_for_gemini(t.latest_user_message.content, fetch)
        fetched == [t EXCEPT !.calls.fetch = @ + FetchCount(t.latest_user_message.content),
                             !.answers.normalize =
                                 IF r.parts = <<>> THEN "empty" ELSE "ok"]
    IN  IF r.raised THEN except_Exception(fetched, "normalize_latest")
        ELSE IF r.parts = <<>> THEN Failed(fetched, "normalize_latest")
        ELSE [fetched EXCEPT !.pc = "assemble_prompt", !.latest_user_parts = r.parts]

\* the assembly handing over to the suggestion step, the generation left out
assemble_then_suggest(t, custom) ==
    [t EXCEPT
       !.pc = "suggest",
       !.calls.persona = @ + 1,
       !.final_prompt = assemble(get_system_prompt(custom), t.formatted_history,
                                 t.latest_user_parts).final_prompt]

\* lines 157-170
assemble_step(t, custom) ==
    [t EXCEPT
       !.pc = "generate",
       !.calls.persona = @ + 1,
       !.final_prompt = assemble(get_system_prompt(custom), t.formatted_history,
                                 t.latest_user_parts).final_prompt]

ResponseText == <<"r">>

generate_step_ignoring_failure(t, outcome) ==
    [t EXCEPT !.pc = "suggest", !.calls.generate = @ + 1,
              !.answers.generate = outcome, !.ai_response_text = ResponseText]

\* lines 174-176; outcome is "ok", "raise" (the call raised) or "textraise"
\* (reading response.text raised)
generate_step(t, outcome) ==
    LET called == [t EXCEPT !.calls.generate = @ + 1, !.answers.generate = outcome]
    IN  IF outcome = "ok"
        THEN [called EXCEPT !.pc = "suggest", !.ai_response_text = ResponseText]
        ELSE except_Exception(called, "generate")

\* line 180: any(p.get('text') == latest_user_content_text
\*               for p in history_for_suggestions[-1].get('parts', []))
last_turn_has_text(history, text) ==
    \E i \in 1..Len(history[Len(history)].parts) :
        /\ history[Len(history)].parts[i].k = "text"
        /\ history[Len(history)].parts[i].text = text

\* lines 179-182; history_for_suggestions is formatted_history itself
suggest_step(t, outcome) ==
    IF t.formatted_history = <<>>
    THEN except_Exception(t, "suggest")   \* history_for_suggestions[-1]: IndexError
    ELSE LET history_for_suggestions ==
                 IF last_turn_has_text(t.formatted_history, t.latest_user_content_text)
                 THEN t.formatted_history
                 ELSE Append(t.formatted_history,
                             TextTurn("user", t.latest_user_content_text))
             r == generate_followup_suggestions(history_for_suggestions,
                                                t.ai_response_text, outcome)
         IN  [t EXCEPT
                !.pc = "persist",
                !.formatted_history = history_for_suggestions,
                !.suggestion_prompt = r.prompt,
                !.suggestions = r.suggestions,
                !.calls.suggest = @ + 1,
                !.answers.suggest = outcome.kind]

\* the metadata of line 186 without its test of the suggestion list
metadata_always(suggestions) == Metadata(suggestions)

\* metadata = {"suggestions": suggestions} if suggestions else None
metadata_of(suggestions) ==
    IF suggestions # <<>> THEN Metadata(suggestions) ELSE NoMetadata

\* lines 185-188: the embedding, the metadata and the call of add_message
persist_step(t, service_ok, write_ok) ==
    LET ai_response_embedding == generate_embedding(t.ai_response_text, service_ok)
        metadata == metadata_of(t.suggestions)
        called == [t EXCEPT
                     !.calls.embed_response =
                         @ + (IF ai_response_embedding.called THEN 1 ELSE 0),
                     !.answers.response_embedding =
                         IF ai_response_embedding.embedding THEN "ok" ELSE "absent",
                     !.calls.write = @ + 1,
                     !.answers.write = IF write_ok THEN "ok" ELSE "failed"]
    IN  [turn |-> Returned(called, "done", "none"),
         role |-> "model",
         content |-> StrContent(t.ai_response_text),
         embedding |-> ai_response_embedding.embedding,
         metadata |-> metadata]

----------------------------------------------------------------------------
(* Direct invocation of format_content_for_gemini on any content *)

Texts == {<<"a">>, <<"b">>}
ItemPool ==
    {TextItem(<<"a">>), TextItem(EmptyStr), OtherItem, NonDictItem(<<"7">>),
     ImageItem("")} \cup {ImageItem(u) : u \in Urls}

RECURSIVE SeqsUpTo(_, _)
SeqsUpTo(S, n) ==
    IF n = 0 THEN {<<>>}
    ELSE LET shorter == SeqsUpTo(S, n - 1)
         IN  shorter \cup {Append(s, x) : s \in {t \in shorter : Len(t) = n - 1}, x \in S}

NormContents ==
    {StrContent(s) : s \in Texts \cup {EmptyStr}}
      \cup {OtherContent(<<"{}">>)}
      \cup {ListContent(items) : items \in SeqsUpTo(ItemPool, MaxItems)}

NoCall == [fn |-> "none"]
NoRet == [done |-> FALSE]

MainIdle == store = <<>> /\ nextId = 1 /\ turns = <<>>

InitNorm ==
    /\ MainIdle
    /\ call \in {[fn |-> "format_content_for_gemini", content |-> c] : c \in NormContents}
    /\ ret = NoRet

FormatContent ==
    /\ call.fn = "format_content_for_gemini"
    /\ ~ret.done
    /\ \E fetch \in FetchChoices(call.content) :
          LET r == format_content_for_gemini(call.content, fetch)
          IN  ret' = [done |-> TRUE, fetch |-> fetch, raised |-> r.raised,
                      parts |-> r.parts]
    /\ UNCHANGED <<store, nextId, turns, call>>

NextNorm == FormatContent
SpecNorm == InitNorm /\ [][NextNorm]_vars

NormReturned == call.fn = "format_content_for_gemini" /\ ret.done

\* a fetch that fails: the GET raised, the status was not 2xx, or the MIME
\* type resolved from the URL, else from the header, is missing or no image
FetchFails(url, resp) ==
    \/ resp.net \in {"error", "status"}
    \/ guess_type(url) \notin ImageMimes /\ guess_type(url) # "none"
    \/ guess_type(url) = "none" /\ resp.ctype \notin ImageMimes

FailedImageAt(i) ==
    /\ call.content.kind = "list"
    /\ i \in 1..Len(call.content.items)
    /\ NeedsFetch(call.content.items[i])
    /\ FetchFails(call.content.items[i].url, ret.fetch[i])

PartsOfSlice(from, to) ==
    format_content_for_gemini(ListContent(SubSeq(call.content.items, from, to)),
                              SubSeq(ret.fetch, from, to)).parts

\* C6: an image-reference item whose fetch fails yields, at its position,
\* exactly one Text block '[Image could not be loaded]'; nothing is raised
\* and the items before and after it are normalized as they are on their own.
C6_FailedFetchPlaceholder ==
    NormReturned =>
        /\ ~ret.raised
        /\ \A i \in 1..Len(call.content.items) :
              FailedImageAt(i) =>
                  ret.parts = PartsOfSlice(1, i - 1)
                                \o <<TextPart(ImagePlaceholder)>>
                                \o PartsOfSlice(i + 1, Len(call.content.items))

C6_Witness ==
    /\ NormReturned
    /\ Len(call.content.items) = 2
    /\ FailedImageAt(2)
    /\ ret.fetch[2].net = "error"
    /\ Len(ret.parts) = 2

\* the items the normalizer has a rule of its own for
IsTextItem(item) == item.type = "text" /\ item.text # EmptyStr
IsImageRefItem(item) == item.type = "image_url" /\ item.url # ""

\* C7 (as claimed): every list item contributes exactly one block, and an
\* item that is neither a non-empty text item nor an image reference with a
\* URL contributes a Text block: no item is dropped.
C7_EveryOtherItemStringified ==
    (NormReturned /\ call.content.kind = "list") =>
        /\ Len(ret.parts) = Len(call.content.items)
        /\ \A i \in 1..Len(call.content.items) :
              (~IsTextItem(call.content.items[i])
                 /\ ~IsImageRefItem(call.content.items[i]))
                => ret.parts[i].k = "text"

----------------------------------------------------------------------------
(* Direct invocation of generate_followup_suggestions on any model output *)

RECURSIVE ArrayTail(_)
ArrayTail(elems) ==
    IF elems = <<>> THEN <<"]">>
    ELSE <<",", " ", Head(elems)>> \o ArrayTail(Tail(elems))

\* the JSON text of an array of the given element atoms
ArrayText(elems) ==
    IF elems = <<>> THEN <<"[", "]">>
    ELSE <<"[", Head(elems)>> \o ArrayTail(Tail(elems))

SuggBodies ==
    {ArrayText(es) : es \in SeqsUpTo(StrLits, MaxArr)}
      \cup { ArrayText(<<"'a'", Digit>>), ArrayText(<<Digit, Digit>>),
             ArrayText(<<"[", "'a'", "]">>),
             <<"'a'">>, <<Digit, Digit>>, <<"[", "'a'">>, <<"[", "'a'", "'b'", "]">>,
             <<"x">>, <<>> }
SuggPrefixes ==
    { <<>>, <<" ">>, <<Tick, Tick, Tick, "j", "s", "o", "n", "\n">>, <<"n">>, <<"x">> }
SuggSuffixes ==
    { <<>>, <<"\n">>, <<"\n", Tick, Tick, Tick>>, <<"x">> }

SuggOutcomes ==
    {SuggRaise, SuggTextRaise}
      \cup {SuggText(p \o b \o x) : p \in SuggPrefixes, b \in SuggBodies, x \in SuggSuffixes}

InitSugg ==
    /\ MainIdle
    /\ call \in {[fn |-> "generate_followup_suggestions",
                  history |-> <<TextTurn("user", <<"a">>)>>,
                  latest_response |-> <<"r">>,
                  outcome |-> o] : o \in SuggOutcomes}
    /\ ret = NoRet

GenerateFollowupSuggestions ==
    /\ call.fn = "generate_followup_suggestions"
    /\ ~ret.done
    /\ LET r == generate_followup_suggestions(call.history, call.latest_response,
                                              call.outcome)
       IN  ret' = [done |-> TRUE, prompt |-> r.prompt, suggestions |-> r.suggestions]
    /\ UNCHANGED <<store, nextId, turns, call>>

NextSugg == GenerateFollowupSuggestions
SpecSugg == InitSugg /\ [][NextSugg]_vars

SuggReturned == call.fn = "generate_followup_suggestions" /\ ret.done

\* the first min(4, n) elements of list, in order
IsFirstFourOf(suggestions, list) ==
    /\ Len(suggestions) = Min(4, Len(list))
    /\ \A i \in 1..Len(suggestions) : suggestions[i] = list[i]

\* text is the JSON text of an array whose elements are all strings
IsJsonStrArray(text) == json_loads(text).ok /\ is_str_list(json_loads(text))

\* C8 (as claimed): an output that parses as a JSON array of strings gives
\* its first min(4, n) elements; any other output, or a failed call, gives
\* the empty list.
C8_SuggestionsFromOutput ==
    SuggReturned =>
        IF call.outcome.kind = "text" /\ IsJsonStrArray(call.outcome.text)
        THEN IsFirstFourOf(ret.suggestions, StrListOf(json_loads(call.outcome.text)))
        ELSE ret.suggestions = <<>>

\* the first position from from on that holds no character of S
FirstNotIn(t, S, from) ==
    CHOOSE j \in from..(Len(t) + 1) :
        /\ \A k \in from..(j - 1) : t[k] \in S
        /\ j = Len(t) + 1 \/ t[j] \notin S

\* the last position up to upto that holds no character of S
LastNotIn(t, S, upto) ==
    CHOOSE j \in 0..upto :
        /\ \A k \in (j + 1)..upto : t[k] \in S
        /\ j = 0 \/ t[j] \notin S

\* the output without its wrapping: leading whitespace, then characters of
\* the opening fence, then whitespace; trailing whitespace, then backquotes,
\* then whitespace
Unwrapped(t) ==
    LET a == FirstNotIn(t, WsChars, FirstNotIn(t, FenceChars, FirstNotIn(t, WsChars, 1)))
        b == LastNotIn(t, WsChars, LastNotIn(t, TickChars, LastNotIn(t, WsChars, Len(t))))
    IN  SubSeq(t, a, b)

\* C8 (amended): the output is first unwrapped; when what is left parses as
\* a JSON array of strings the suggestions are its first min(4, n) elements
\* in order, and in every other case they are the empty list.
C8_SuggestionsFromUnwrappedOutput ==
    SuggReturned =>
        IF call.outcome.kind = "text" /\ IsJsonStrArray(Unwrapped(call.outcome.text))
        THEN IsFirstFourOf(ret.suggestions,
                           StrListOf(json_loads(Unwrapped(call.outcome.text))))
        ELSE ret.suggestions = <<>>

C8_Witness ==
    /\ SuggReturned
    /\ call.outcome.kind = "text"
    /\ ~IsJsonStrArray(call.outcome.text)
    /\ IsJsonStrArray(Unwrapped(call.outcome.text))
    /\ Len(json_loads(Unwrapped(call.outcome.text)).v) = 5
    /\ Len(ret.suggestions) = 4

----------------------------------------------------------------------------
(* Direct invocation of the selection of lines 140-147 on any log and any  *)
(* answer of the similarity service                                        *)

LogOf(n) ==
    [i \in 1..n |-> Message(i, IF i % 2 = 1 THEN "user" ELSE "model",
                            StrContent(<<"a">>), FALSE, NoMetadata)]

InitSelect ==
    /\ MainIdle
    /\ \E n \in 1..MaxSelLog :
         call \in {[fn |-> "select_context", messages_db |-> LogOf(n),
                    relevant_messages |-> rel] :
                       rel \in SeqsUpTo({LogOf(n)[i] : i \in 1..n}, MaxRelevant)}
    /\ ret = NoRet

SelectContextCall ==
    /\ call.fn = "select_context"
    /\ ~ret.done
    /\ LET r == select_context(call.messages_db, call.relevant_messages)
       IN  ret' = [done |-> TRUE, recent_messages |-> r.recent_messages,
                   merged |-> r.merged, context |-> r.context]
    /\ UNCHANGED <<store, nextId, turns, call>>

NextSelect == SelectContextCall
SpecSelect == InitSelect /\ [][NextSelect]_vars

SelectReturned == call.fn = "select_context" /\ ret.done

\* C4: the selected context has at most 7 messages and no message id twice.
C4_ContextBoundedAndDeduplicated ==
    SelectReturned =>
        /\ Len(ret.context) <= 7
        /\ \A i, j \in 1..Len(ret.context) :
              ret.context[i].id = ret.context[j].id => i = j

C4_Witness ==
    /\ SelectReturned
    /\ Len(ret.merged) > 7
    /\ Len(ret.context) = 7
    /\ \E i, j \in 1..Len(call.relevant_messages) :
          i # j /\ call.relevant_messages[i] = call.relevant_messages[j]

----------------------------------------------------------------------------
(* Direct invocation of the prompt assembly of lines 159-170 on any text   *)
(* history of at most MAX_CONTEXT_MSGS turns                               *)

Roles == {"user", "model"}
AsmHistories == SeqsUpTo({TextTurn(r, <<"a">>) : r \in Roles}, MAX_CONTEXT_MSGS)
AsmLatestParts ==
    { <<TextPart(<<"a">>)>>, <<InlinePart("image/png")>>,
      <<TextPart(<<"b">>), TextPart(ImagePlaceholder)>> }

InitAsm ==
    /\ MainIdle
    /\ call \in {[fn |-> "assemble", effective_system_prompt |-> sp,
                  formatted_history |-> h, latest_user_parts |-> lp] :
                     sp \in {DEFAULT_SYSTEM_PROMPT}, h \in AsmHistories,
                     lp \in AsmLatestParts}
    /\ ret = NoRet

AssembleCall ==
    /\ call.fn = "assemble"
    /\ ~ret.done
    /\ LET r == assemble(call.effective_system_prompt, call.formatted_history,
                         call.latest_user_parts)
       IN  ret' = [done |-> TRUE, history_to_append |-> r.history_to_append,
                   skipped |-> r.skipped, accepted |-> r.accepted,
                   final_prompt |-> r.final_prompt]
    /\ UNCHANGED <<store, nextId, turns, call>>

NextAsm == AssembleCall
SpecAsm == InitAsm /\ [][NextAsm]_vars

AsmReturned == call.fn = "assemble" /\ ret.done

\* no two adjacent turns of a prompt share a role
Alternates(prompt) ==
    \A i \in 1..(Len(prompt) - 1) : prompt[i].role # prompt[i + 1].role

RolesOf(turnseq) == [i \in 1..Len(turnseq) |-> turnseq[i].role]

\* C1: the prompt built from any history and any non-empty latest blocks has
\* no two adjacent turns with the same role, and its last turn is a user turn.
C1_PromptAlternatesEndsWithUser ==
    AsmReturned =>
        /\ Alternates(ret.final_prompt)
        /\ ret.final_prompt[Len(ret.final_prompt)].role = "user"

\* a malformed history (repeated roles) whose walk ends on a user turn
C1_Witness ==
    /\ AsmReturned
    /\ RolesOf(call.formatted_history) = <<"model", "model", "user", "user">>
    /\ RolesOf(ret.final_prompt) = <<"user", "model", "user", "model", "user">>

\* the role of the most recently accepted turn before index i of the walk;
\* the preamble's model acknowledgement when none was accepted yet
LastAcceptedRole(i) ==
    LET earlier == {j \in 1..(i - 1) : j \notin ret.skipped}
    IN  IF earlier = {} THEN "model"
        ELSE ret.history_to_append[CHOOSE j \in earlier : \A k \in earlier : k <= j].role

RECURSIVE Unskipped(_, _)
\* the turns of history_to_append from index i on that were not skipped
Unskipped(h, i) ==
    IF i > Len(h) THEN <<>>
    ELSE IF i \in ret.skipped THEN Unskipped(h, i + 1)
    ELSE <<h[i]>> \o Unskipped(h, i + 1)

\* C10: in the walk a turn is skipped iff its role is the role of the most
\* recently accepted turn (the model acknowledgement at first); the accepted
\* turns follow the preamble in their order; and of user,model,user,user,model
\* the second of the two consecutive user turns is skipped.
C10_SkipIffSameAsLastAccepted ==
    AsmReturned =>
        /\ ret.skipped \subseteq 1..Len(ret.history_to_append)
        /\ \A i \in 1..Len(ret.history_to_append) :
              (i \in ret.skipped)
                 <=> (ret.history_to_append[i].role = LastAcceptedRole(i))
        /\ ret.accepted = Unskipped(ret.history_to_append, 1)
        /\ SubSeq(ret.final_prompt, 3, 2 + Len(ret.accepted)) = ret.accepted
        /\ (RolesOf(call.formatted_history)
               = <<"user", "model", "user", "user", "model">>)
             => (3 \in ret.skipped /\ 2 \notin ret.skipped /\ 4 \notin ret.skipped)

C10_Witness ==
    /\ AsmReturned
    /\ RolesOf(call.formatted_history) = <<"user", "model", "user", "user", "model">>
    /\ ret.skipped = {1, 3}
    /\ RolesOf(ret.accepted) = <<"user", "model">>

----------------------------------------------------------------------------
(* The backend: posts of user messages, image generation tasks and the     *)
(* background turns they interleave with                                   *)

UserContents ==
    { StrContent(<<"a">>),
      ListContent(<<TextItem(<<"b">>), ImageItem("x/y.png")>>),
      ListContent(<<ImageItem("x/y")>>),
      ListContent(<<>>) }

\* the message handle_image_generation_request stores
ImageGenContents ==
    { ListContent(<<TextItem(<<"Image generation request">>), ImageItem("x/y.png")>>) }

SuggOutcomesOfTurn ==
    { SuggRaise,
      SuggText(ArrayText(<<"'a'", "'b'">>)),
      SuggText(<<"x">>) }

Init ==
    /\ store = <<>>
    /\ nextId = 1
    /\ turns = <<>>
    /\ call = NoCall
    /\ ret = NoRet

\* add_new_message with the task scheduled whatever add_message returned
add_new_message_unchecked(messages, id, tasks, content, owned, ok) ==
    LET user_message == add_message(messages, id, "user", content, FALSE, NoMetadata, ok)
    IN  [status |-> "200", messages |-> user_message.messages,
         tasks |-> Append(tasks, NewTurn(id))]

\* add_new_message (main.py lines 95-128): 404 for a quest that is not the
\* caller's, 500 when add_message returns None, else the task is scheduled
\* and the stored message returned
add_new_message(messages, id, tasks, content, owned, ok) ==
    IF ~owned
    THEN [status |-> "404", messages |-> messages, tasks |-> tasks]
    ELSE LET user_message ==
                 add_message(messages, id, "user", content, FALSE, NoMetadata, ok)
         IN  IF ~user_message.returned
             THEN [status |-> "500", messages |-> user_message.messages,
                   tasks |-> tasks]
             ELSE [status |-> "200", messages |-> user_message.messages,
                   tasks |-> Append(tasks, NewTurn(id))]

\* add_new_message: the user message is stored, then the turn is scheduled;
\* nothing is done when the quest is not the caller's or the insert fails
AddNewMessage ==
    /\ Len(store) < MaxStore
    /\ Len(turns) < MaxPosts
    /\ \E content \in UserContents, owned \in BOOLEAN, ok \in BOOLEAN :
          LET r == add_new_message(store, nextId, turns, content, owned, ok)
          IN  /\ store' = r.messages
              /\ nextId' = Len(r.messages) + 1
              /\ turns' = r.tasks
    /\ UNCHANGED <<call, ret>>

ImageGensSoFar ==
    Cardinality({i \in 1..Len(store) : store[i].content \in ImageGenContents})

\* handle_image_generation_request: stores a model-role message
HandleImageGeneration ==
    /\ Len(store) < MaxStore
    /\ ImageGensSoFar < MaxImageGens
    /\ \E content \in ImageGenContents, ok \in BOOLEAN :
          LET saved == add_message(store, nextId, "model", content, FALSE, NoMetadata, ok)
          IN  /\ store' = saved.messages
              /\ nextId' = IF saved.returned THEN nextId + 1 ELSE nextId
    /\ UNCHANGED <<turns, call, ret>>

Started == Cardinality({i \in 1..Len(turns) : turns[i].pc # "dispatched"})

FetchHistoryOf(i) ==
    /\ turns[i].pc = "dispatched"
    /\ Started < MaxStarted
    /\ \E ok \in BOOLEAN :
          turns' = [turns EXCEPT ![i] = fetch_history(@, get_messages_by_quest(store, ok))]
    /\ UNCHANGED <<store, nextId, call, ret>>

SelectContextOf(i) ==
    /\ turns[i].pc = "select_context"
    /\ \E service_ok \in BOOLEAN, failed \in BOOLEAN,
          rows \in SeqsUpTo({store[k] : k \in 1..Len(store)}, MaxHits) :
          /\ failed => rows = <<>>
          /\ turns' = [turns EXCEPT
                         ![i] = select_step(@, service_ok,
                                            [failed |-> failed, rows |-> rows])]
    /\ UNCHANGED <<store, nextId, call, ret>>

NormalizeLatestOf(i) ==
    /\ turns[i].pc = "normalize_latest"
    /\ \E fetch \in FetchChoices(turns[i].latest_user_message.content) :
          turns' = [turns EXCEPT ![i] = normalize_step(@, fetch)]
    /\ UNCHANGED <<store, nextId, call, ret>>

AssemblePromptOf(i) ==
    /\ turns[i].pc = "assemble_prompt"
    /\ \E custom \in BOOLEAN :
          turns' = [turns EXCEPT ![i] = assemble_step(@, custom)]
    /\ UNCHANGED <<store, nextId, call, ret>>

GenerateOf(i) ==
    /\ turns[i].pc = "generate"
    /\ \E outcome \in {"ok", "raise", "textraise"} :
          turns' = [turns EXCEPT ![i] = generate_step(@, outcome)]
    /\ UNCHANGED <<store, nextId, call, ret>>

SuggestOf(i) ==
    /\ turns[i].pc = "suggest"
    /\ \E outcome \in SuggOutcomesOfTurn :
          turns' = [turns EXCEPT ![i] = suggest_step(@, outcome)]
    /\ UNCHANGED <<store, nextId, call, ret>>

PersistOf(i) ==
    /\ turns[i].pc = "persist"
    /\ \E service_ok \in BOOLEAN, write_ok \in BOOLEAN :
          LET p == persist_step(turns[i], service_ok, write_ok)
              saved == add_message(store, nextId, p.role, p.content, p.embedding,
                                   p.metadata, write_ok)
          IN  /\ turns' = [turns EXCEPT ![i] = p.turn]
              /\ store' = saved.messages
              /\ nextId' = IF saved.returned THEN nextId + 1 ELSE nextId
    /\ UNCHANGED <<call, ret>>

\* the steps of generate_ai_response, of any scheduled task
FetchHistory == \E i \in 1..Len(turns) : FetchHistoryOf(i)
SelectContext == \E i \in 1..Len(turns) : SelectContextOf(i)
NormalizeLatest == \E i \in 1..Len(turns) : NormalizeLatestOf(i)
AssemblePrompt == \E i \in 1..Len(turns) : AssemblePromptOf(i)
Generate == \E i \in 1..Len(turns) : GenerateOf(i)
Suggest == \E i \in 1..Len(turns) : SuggestOf(i)
Persist == \E i \in 1..Len(turns) : PersistOf(i)

Next ==
    \/ AddNewMessage
    \/ HandleImageGeneration
    \/ FetchHistory
    \/ SelectContext
    \/ NormalizeLatest
    \/ AssemblePrompt
    \/ Generate
    \/ Suggest
    \/ Persist

Spec == Init /\ [][Next]_vars

\* One scheduled turn over a stored conversation: the log holds one or two
\* messages, a user message among them, and the turn its post scheduled is
\* waiting.  The event loop runs a scheduled task, and runs it on whenever
\* the collaborator it awaits has answered.
TurnLogPool ==
    {[role |-> "user", content |-> c] : c \in UserContents}
        \cup {[role |-> "model", content |-> StrContent(<<"r">>)]}

TurnLogs ==
    {[k \in 1..Len(l) |-> Message(k, l[k].role, l[k].content, FALSE, NoMetadata)] :
        l \in {m \in SeqsUpTo(TurnLogPool, MaxTurnLog) :
                  \E k \in 1..Len(m) : m[k].role = "user"}}

InitTurn ==
    /\ store \in TurnLogs
    /\ nextId = Len(store) + 1
    /\ turns = <<NewTurn(latest_user_of(store).id)>>
    /\ call = NoCall
    /\ ret = NoRet

NextTurn ==
    \/ FetchHistory
    \/ SelectContext
    \/ NormalizeLatest
    \/ AssemblePrompt
    \/ Generate
    \/ Suggest
    \/ Persist

SpecTurn == InitTurn /\ [][NextTurn]_vars /\ WF_vars(NextTurn)

TurnIds == 1..Len(turns)
Terminal(t) == t.pc \in {"done", "failed"}
\* the turn is past SELECT_CONTEXT and has not returned
Selected(t) ==
    t.pc \in {"normalize_latest", "assemble_prompt", "generate", "suggest", "persist"}

\* C2: a turn whose main generation call fails (the call raises, or reading
\* the response text raises) ends FAILED at that step, issues no store write
\* and makes no suggestion call and no response-embedding call.
C2_GenerationFailurePersistsNothing ==
    \A i \in TurnIds :
        turns[i].answers.generate \in {"raise", "textraise"} =>
            /\ turns[i].pc = "failed"
            /\ turns[i].failed_at = "generate"
            /\ turns[i].calls.write = 0
            /\ turns[i].calls.suggest = 0
            /\ turns[i].calls.embed_response = 0

C2_Witness ==
    \E i \in TurnIds :
        /\ turns[i].answers.generate = "textraise"
        /\ turns[i].pc = "failed"
        /\ turns[i].calls.generate = 1
        /\ store # <<>>
        /\ \A k \in 1..Len(store) : store[k].role = "user"

\* C3 (as claimed): once the main generation call has returned a response
\* text the turn is never aborted: it does not end FAILED.
C3_GeneratedTurnReachesPersist ==
    \A i \in TurnIds :
        turns[i].answers.generate = "ok" => turns[i].pc # "failed"

\* C5 (as claimed): every prompt a turn hands to the generation service, the
\* main prompt and the suggestion prompt, alternates role.
C5_EveryPromptAlternates ==
    \A i \in TurnIds :
        /\ Alternates(turns[i].final_prompt)
        /\ Alternates(turns[i].suggestion_prompt)

\* the last min(3, n) messages of a log, in log order
LastThree(messages_db) ==
    LET n == Len(messages_db)
        m == Min(3, n)
    IN  [k \in 1..m |-> messages_db[n - m + k]]

RecencyOnly(t) ==
    t.answers.query_embedding = "absent" \/ t.answers.similarity = "failed"

\* C9 (as claimed): without a query embedding no similarity query is issued;
\* without one, or when the similarity service fails, the selected context
\* is the last min(3, n) messages of the log in log order, and the turn
\* proceeds to generation: it does not return without the generation call.
C9_RecencyOnlyProceedsToGeneration ==
    \A i \in TurnIds :
        /\ turns[i].answers.query_embedding = "absent" => turns[i].calls.similarity = 0
        /\ (Selected(turns[i]) /\ RecencyOnly(turns[i])) =>
               turns[i].context_messages_for_history = LastThree(turns[i].messages_db)
        /\ (Terminal(turns[i]) /\ RecencyOnly(turns[i])) => turns[i].calls.generate > 0

\* C9 (amended): without a query embedding no similarity query is issued;
\* without one, or when the similarity service fails, the selected context
\* is the last min(3, n) messages of the log in log order, and selection
\* does not fail the turn: it goes on to normalize the latest message.
C9_RecencyOnlySelection ==
    \A i \in TurnIds :
        /\ turns[i].answers.query_embedding = "absent" => turns[i].calls.similarity = 0
        /\ (Selected(turns[i]) /\ RecencyOnly(turns[i])) =>
               turns[i].context_messages_for_history = LastThree(turns[i].messages_db)
        /\ turns[i].failed_at # "select_context"
        /\ (turns[i].pc = "failed" /\ RecencyOnly(turns[i]))
              => turns[i].failed_at \in {"normalize_latest", "generate", "suggest"}

C9_Witness ==
    \E i \in TurnIds :
        /\ turns[i].pc = "generate"
        /\ turns[i].answers.similarity = "failed"
        /\ Len(turns[i].messages_db) = 4
        /\ Len(turns[i].context_messages_for_history) = 3

----------------------------------------------------------------------------
(* The turn's early exits and its store write *)

OnlyLoaded(t) ==
    /\ t.calls.load = 1
    /\ t.calls.embed_query = 0
    /\ t.calls.similarity = 0
    /\ t.calls.fetch = 0
    /\ t.calls.persona = 0
    /\ t.calls.generate = 0
    /\ t.calls.suggest = 0
    /\ t.calls.embed_response = 0
    /\ t.calls.write = 0

\* C11: a turn whose loaded message log is empty, or holds no user-role
\* message, ends FAILED at FETCH_HISTORY and calls no collaborator but the
\* load: no embedding call, no similarity query, no image fetch, no
\* generation call and no store write; a turn that goes past FETCH_HISTORY
\* holds a log with a user-role message.
C11_EmptyLogFailsWithoutSideEffects ==
    \A i \in TurnIds :
        /\ turns[i].answers.load \in {"empty", "nouser"} =>
               /\ turns[i].pc = "failed"
               /\ turns[i].failed_at = "fetch_history"
               /\ OnlyLoaded(turns[i])
        /\ Selected(turns[i]) \/ turns[i].pc = "select_context" =>
               /\ turns[i].messages_db # <<>>
               /\ turns[i].latest_user_message.role = "user"

C11_Witness ==
    \E i \in TurnIds :
        /\ turns[i].answers.load = "empty"
        /\ turns[i].pc = "failed"
        /\ Len(store) = MaxStore
        /\ \E j \in TurnIds : turns[j].pc = "dispatched"

\* the turn is past NORMALIZE_LATEST and has not returned
Normalized(t) == t.pc \in {"assemble_prompt", "generate", "suggest", "persist"}

\* C12: a turn whose latest user message normalizes to zero blocks ends
\* FAILED at NORMALIZE_LATEST: no persona lookup, no generation call, no
\* suggestion call and no store write happen in it; a turn that goes past
\* NORMALIZE_LATEST holds at least one block for its final user turn.
C12_EmptyNormalizationFails ==
    \A i \in TurnIds :
        /\ turns[i].answers.normalize = "empty" =>
               /\ turns[i].pc = "failed"
               /\ turns[i].failed_at = "normalize_latest"
               /\ turns[i].calls.persona = 0
               /\ turns[i].calls.generate = 0
               /\ turns[i].calls.suggest = 0
               /\ turns[i].calls.embed_response = 0
               /\ turns[i].calls.write = 0
        /\ Normalized(turns[i]) => turns[i].latest_user_parts # <<>>

C12_Witness ==
    \E i \in TurnIds :
        /\ turns[i].answers.normalize = "empty"
        /\ turns[i].pc = "failed"
        /\ turns[i].calls.load = 1
        /\ store[Len(store)].role = "user"
        /\ store[Len(store)].content = ListContent(<<>>)
        /\ Len(store) > 1

\* the message the PERSIST step of turn i hands to add_message, read off the
\* turn before the step
WrittenBy(i) ==
    Message(nextId, "model", StrContent(turns[i].ai_response_text),
            turns'[i].answers.response_embedding = "ok",
            IF turns[i].suggestions # <<>>
            THEN [has |-> TRUE, suggestions |-> turns[i].suggestions]
            ELSE [has |-> FALSE, suggestions |-> <<>>])

\* the PERSIST step of turn i: one call of add_message, with that message
PersistWritesOnce(i) ==
    (turns[i].pc = "persist" /\ turns'[i] # turns[i]) =>
        /\ turns'[i].pc = "done"
        /\ turns[i].calls.write = 0
        /\ turns'[i].calls.write = 1
        /\ turns'[i].answers.write = "ok" => store' = Append(store, WrittenBy(i))
        /\ turns'[i].answers.write = "failed" => store' = store

\* no step of a turn but PERSIST touches the store
OnlyPersistWrites(i) ==
    (turns[i].pc # "persist" /\ turns'[i] # turns[i]) =>
        /\ store' = store
        /\ turns'[i].calls.write = turns[i].calls.write

WritesOfTurns ==
    /\ Len(turns') >= Len(turns)
    /\ \A i \in TurnIds : PersistWritesOnce(i) /\ OnlyPersistWrites(i)

WriteCounts ==
    \A i \in TurnIds :
        /\ turns[i].pc = "done" => turns[i].calls.write = 1
        /\ turns[i].pc # "done" => turns[i].calls.write = 0

\* C13: a turn that reaches PERSIST issues exactly one store write, of a
\* model-role message carrying the generated response text, the response
\* embedding when one was obtained and none otherwise, and metadata holding
\* the suggestion list when the list is non-empty and no metadata when it is
\* empty; no other step of a turn writes, so a turn that ends FAILED has
\* issued no store write.
C13_PersistWritesOneModelMessage == []WriteCounts /\ [][WritesOfTurns]_vars

C13_Witness ==
    \E i \in TurnIds, k \in 1..Len(store) :
        /\ turns[i].pc = "done"
        /\ turns[i].calls.write = 1
        /\ turns[i].answers.response_embedding = "absent"
        /\ turns[i].answers.suggest = "text"
        /\ k = Len(store)
        /\ store[k].role = "model"
        /\ store[k].content = StrContent(ResponseText)
        /\ ~store[k].embedding
        /\ store[k].metadata.has
        /\ Len(store[k].metadata.suggestions) = 2

TurnStates ==
    {"dispatched", "select_context", "normalize_latest", "assemble_prompt",
     "generate", "suggest", "persist", "done", "failed"}

\* no exception has left a turn, and a failed turn wrote nothing
NothingPropagates ==
    \A i \in TurnIds :
        /\ turns[i].pc \in TurnStates
        /\ turns[i].pc = "failed" =>
               /\ turns[i].failed_at \in
                      {"fetch_history", "normalize_latest", "generate", "suggest"}
               /\ turns[i].calls.write = 0
        /\ turns[i].pc # "failed" => turns[i].failed_at = "none"

HasStarted(i) == i \in TurnIds
HasEnded(i) == i \in TurnIds /\ Terminal(turns[i])

\* C14: whatever the collaborators answer, no exception leaves
\* generate_ai_response (a turn is only ever in one of the steps, DONE or
\* FAILED), a turn that failed has written no message, and every turn that
\* is scheduled ends in DONE or FAILED.
C14_TurnTerminatesQuietly ==
    /\ []NothingPropagates
    /\ HasStarted(1) ~> HasEnded(1)

C14_Witness ==
    \E i \in TurnIds :
        /\ turns[i].pc = "failed"
        /\ turns[i].failed_at = "suggest"
        /\ turns[i].answers.generate = "ok"
        /\ turns[i].answers.query_embedding = "absent"
        /\ turns[i].calls.fetch = 1
        /\ turns[i].calls.write = 0

----------------------------------------------------------------------------
(* One POST of a user message to a stored conversation *)

PostLogs == {<<>>} \cup TurnLogs

InitPost ==
    /\ store \in PostLogs
    /\ nextId = Len(store) + 1
    /\ turns = <<>>
    /\ call \in {[fn |-> "add_new_message", content |-> c, owned |-> o, ok |-> k] :
                    c \in UserContents, o \in BOOLEAN, k \in BOOLEAN}
    /\ ret = NoRet

AddNewMessageCall ==
    /\ call.fn = "add_new_message"
    /\ ~ret.done
    /\ LET r == add_new_message(store, nextId, turns, call.content, call.owned, call.ok)
       IN  /\ store' = r.messages
           /\ nextId' = Len(r.messages) + 1
           /\ turns' = r.tasks
           /\ ret' = [done |-> TRUE, status |-> r.status, before |-> store]
    /\ UNCHANGED call

NextPost == AddNewMessageCall
SpecPost == InitPost /\ [][NextPost]_vars

PostReturned == call.fn = "add_new_message" /\ ret.done

\* C15: add_new_message schedules a turn only after the user message is
\* stored: when it has scheduled one, the log is the log before the POST
\* plus the posted user message, which add_message returned; when the quest
\* is not the caller's or add_message reports failure, no turn is scheduled
\* (and the POST is answered 404 or 500).
C15_DispatchOnlyAfterStore ==
    PostReturned =>
        /\ turns # <<>> =>
               /\ call.owned /\ call.ok
               /\ ret.status = "200"
               /\ Len(turns) = 1
               /\ turns[1].pc = "dispatched"
               /\ store = Append(ret.before,
                                 Message(Len(ret.before) + 1, "user", call.content,
                                         FALSE, [has |-> FALSE, suggestions |-> <<>>]))
               /\ turns[1].trigger = store[Len(store)].id
        /\ (~call.owned \/ ~call.ok) =>
               /\ turns = <<>>
               /\ store = ret.before
               /\ ret.status = IF ~call.owned THEN "404" ELSE "500"
        /\ (call.owned /\ call.ok) => turns # <<>>

C15_Witness ==
    /\ PostReturned
    /\ call.owned
    /\ ~call.ok
    /\ ret.status = "500"
    /\ turns = <<>>
    /\ Len(store) = MaxTurnLog

----------------------------------------------------------------------------
(* Turns and the posts that scheduled them *)

\* C16 (as claimed): the turn scheduled by the POST of user message m answers
\* m: the latest user message it takes from the log, which becomes the final
\* user turn of its prompt, is the message whose POST scheduled it.
C16_TurnAnswersItsTrigger ==
    \A i \in TurnIds :
        (turns[i].pc = "select_context" \/ Selected(turns[i])) =>
            turns[i].latest_user_message.id = turns[i].trigger

----------------------------------------------------------------------------
(* The merged list of the selector *)

\* the similarity results followed by the last min(3, n) messages of the log
Concatenated(relevant_messages, messages_db) ==
    relevant_messages \o
        [k \in 1..Min(3, Len(messages_db)) |->
            messages_db[Len(messages_db) - Min(3, Len(messages_db)) + k]]

\* the positions of a list that hold the first occurrence of their message
FirstSeen(msgs) ==
    {i \in 1..Len(msgs) : \A j \in 1..(i - 1) : msgs[j].id # msgs[i].id}

\* C17: before truncation the merged list is the similarity results, in the
\* order returned, followed by the recency window in log order, each message
\* kept once at its first occurrence; so a message that is a similarity
\* result and also in the recency window stands among the similarity
\* results, before every message that only the recency window brought.
C17_MergedIsFirstSeenOrder ==
    SelectReturned =>
        LET both == Concatenated(call.relevant_messages, call.messages_db)
            first == FirstSeen(both)
            similar == IdsOf(call.relevant_messages)
        IN  /\ Len(ret.merged) = Cardinality(first)
            /\ \A i \in first :
                   ret.merged[Cardinality({j \in first : j <= i})] = both[i]
            /\ \A k \in 1..Len(ret.merged) :
                   ret.merged[k].id \in similar <=> k <= Cardinality(similar)

C17_Witness ==
    /\ SelectReturned
    /\ Len(call.messages_db) = 5
    /\ Len(call.relevant_messages) = 3
    /\ call.relevant_messages[1].id = 4
    /\ call.relevant_messages[2].id = 1
    /\ call.relevant_messages[3].id = 4
    /\ Len(ret.merged) = 4
    /\ ret.merged[1].id = 4
    /\ ret.merged[2].id = 1
    /\ ret.merged[3].id = 3
    /\ ret.merged[4].id = 5

\* C20: when the similarity service returns at most match_count = 3
\* messages, the merged list holds at most 6 messages, the truncation to
\* MAX_CONTEXT_MSGS does not cut it, and every message of the recency window
\* (the last min(3, n) messages of the log) is in the selected context.
C20_HonouredMatchCountNeverTruncates ==
    (SelectReturned /\ Len(call.relevant_messages) <= match_count) =>
        /\ Len(ret.merged) <= match_count + RecentWindow
        /\ Len(ret.merged) <= MAX_CONTEXT_MSGS
        /\ ret.context = ret.merged
        /\ \A k \in 1..Len(call.messages_db) :
               k > Len(call.messages_db) - 3 =>
                  \E c \in 1..Len(ret.context) : ret.context[c] = call.messages_db[k]

C20_Witness ==
    /\ SelectReturned
    /\ Len(call.messages_db) = MaxSelLog
    /\ Len(call.relevant_messages) = match_count
    /\ Len(ret.merged) = match_count + RecentWindow
    /\ ret.context = ret.merged

----------------------------------------------------------------------------
(* The order of the steps of a turn *)

StepOrder ==
    <<"dispatched", "select_context", "normalize_latest", "assemble_prompt",
      "generate", "suggest", "persist", "done">>

\* the place of a state in the order; a scheduled turn stands before
\* FETCH_HISTORY, a turn in state s has completed every step before s
Rank(pc) == CHOOSE k \in 1..Len(StepOrder) : StepOrder[k] = pc

\* a step of turn i leaves a state that is not terminal and leads to the next
\* state of the order or to FAILED
StepsInOrder(i) ==
    turns'[i] # turns[i] =>
        /\ ~Terminal(turns[i])
        /\ \/ turns'[i].pc = "failed"
           \/ Rank(turns'[i].pc) = Rank(turns[i].pc) + 1
        /\ turns'[i].trigger = turns[i].trigger

\* each collaborator of a step is called in that step and in no other
CallsOfStep(t) ==
    /\ t.calls.load = (IF t.pc = "dispatched" THEN 0 ELSE 1)
    /\ t.calls.embed_query <= 1
    /\ t.calls.similarity <= t.calls.embed_query
    /\ t.calls.persona <= 1
    /\ t.calls.generate <= t.calls.persona
    /\ t.calls.suggest <= t.calls.generate
    /\ t.calls.embed_response <= t.calls.suggest
    /\ t.calls.write <= t.calls.suggest
    /\ t.calls.embed_query > 0 => t.answers.load = "ok"
    /\ t.calls.fetch > 0 => t.answers.query_embedding # "none"
    /\ t.answers.normalize # "none" => t.answers.query_embedding # "none"
    /\ t.calls.persona > 0 => t.answers.normalize = "ok"
    /\ t.calls.suggest > 0 => t.answers.generate = "ok"
    /\ t.calls.write > 0 => t.answers.generate = "ok"
    /\ ~Terminal(t) =>
           /\ t.calls.persona = (IF Rank(t.pc) > Rank("assemble_prompt") THEN 1 ELSE 0)
           /\ t.calls.generate = (IF Rank(t.pc) > Rank("generate") THEN 1 ELSE 0)
           /\ t.calls.suggest = (IF Rank(t.pc) > Rank("suggest") THEN 1 ELSE 0)
           /\ t.calls.write = 0
    /\ t.pc = "done" => t.calls.write = 1 /\ t.calls.suggest = 1

\* C18: a turn goes through FETCH_HISTORY, SELECT_CONTEXT, NORMALIZE_LATEST,
\* ASSEMBLE_PROMPT, GENERATE, SUGGEST, PERSIST, DONE in that order, one step
\* at a time, each step at most once; DONE and FAILED are terminal; the store
\* write of PERSIST happens only after the generation call has succeeded.
C18_StepsStrictlySequential ==
    /\ [](\A i \in TurnIds : CallsOfStep(turns[i]))
    /\ [][Len(turns') >= Len(turns) /\ \A i \in TurnIds : StepsInOrder(i)]_vars

C18_Witness ==
    \E i \in TurnIds :
        /\ turns[i].pc = "done"
        /\ turns[i].calls.write = 1
        /\ turns[i].calls.fetch = 1
        /\ turns[i].calls.similarity = 1
        /\ turns[i].answers.suggest = "raise"
        /\ Len(store) = MaxStore

----------------------------------------------------------------------------
(* The blocks of an assembled prompt *)

IsOneTextBlock(turn) == Len(turn.parts) = 1 /\ turn.parts[1].k = "text"

\* the turn is the text portion, not empty, of a message of the context
IsTextOfContextMessage(turn, context) ==
    \E c \in 1..Len(context) :
        /\ turn.role = context[c].role
        /\ turn.parts[1].text = extractTextContent(context[c].content)
        /\ turn.parts[1].text # EmptyStr

TextOnlyBeforeFinal(t) ==
    LET prompt == t.final_prompt
        n == Len(prompt)
    IN  n > 0 =>
          /\ n >= 3
          /\ \A k \in 1..(n - 1) : IsOneTextBlock(prompt[k])
          /\ \A k \in 3..(n - 1) :
                 \/ prompt[k] = TextTurn("model", Filler)
                 \/ IsTextOfContextMessage(prompt[k], t.context_messages_for_history)
          /\ \A k \in 1..(n - 1) : \A p \in 1..Len(prompt[k].parts) :
                 prompt[k].parts[p].k # "inline_data"
          /\ prompt[n].role = "user"
          /\ prompt[n].parts = t.latest_user_parts

\* C19: in every assembled prompt each turn before the final one is exactly
\* one Text block; a history turn is the text portion of a message of the
\* selected context, a message whose text portion is empty gives no turn,
\* and InlineImage blocks occur only in the final user turn.
C19_HistoryIsTextOnly ==
    \A i \in TurnIds : TextOnlyBeforeFinal(turns[i])

C19_Witness ==
    \E i \in TurnIds :
        /\ Len(turns[i].final_prompt) = 5
        /\ \E p \in 1..Len(turns[i].latest_user_parts) :
               turns[i].latest_user_parts[p].k = "inline_data"
        /\ \E c \in 1..Len(turns[i].context_messages_for_history) :
               /\ turns[i].context_messages_for_history[c].content
                      = ListContent(<<ImageItem("x/y")>>)
               /\ turns[i].context_messages_for_history[c].id
                      # turns[i].latest_user_message.id
        /\ \E c \in 1..Len(turns[i].context_messages_for_history) :
               /\ turns[i].context_messages_for_history[c].content \in ImageGenContents

----------------------------------------------------------------------------
(* The latest user message and the history turns of a prompt *)

RECURSIVE WithText(_)
\* the messages of a context that format_history_for_gemini makes a turn of
WithText(msgs) ==
    IF msgs = <<>> THEN <<>>
    ELSE IF extractTextContent(Head(msgs).content) # EmptyStr
    THEN <<Head(msgs)>> \o WithText(Tail(msgs))
    ELSE WithText(Tail(msgs))

\* the messages whose turns the walk of lines 163-168 puts into the prompt
KeptInPrompt(context) ==
    walk(drop_leading_user(WithText(context)), 1, "model",
         [accepted |-> <<>>, skipped |-> {}]).accepted

\* C21 (as claimed): in an assembled prompt the latest user message is the
\* final turn only: it is not among the messages whose turns stand between
\* the preamble and the final turn.
C21_LatestOnlyAsFinalTurn ==
    \A i \in TurnIds :
        turns[i].final_prompt # <<>> =>
            turns[i].latest_user_message.id
                \notin IdsOf(KeptInPrompt(turns[i].context_messages_for_history))

----------------------------------------------------------------------------
(* The history turns kept from an alternating history *)

\* the first position from the second on that holds a user turn, one past
\* the end when there is none
FirstLaterUser(history) ==
    IF \E j \in 2..Len(history) : history[j].role = "user"
    THEN CHOOSE j \in 2..Len(history) :
             /\ history[j].role = "user"
             /\ \A k \in 2..(j - 1) : history[k].role # "user"
    ELSE Len(history) + 1

\* C22: of a text history whose roles alternate, the prompt keeps exactly
\* the turns from the first user turn after the leading turn on, in order:
\* a leading model turn is lost alone, a leading user turn is lost together
\* with the model turn after it, and no later turn is lost.
C22_AlternatingHistoryKeepsSuffix ==
    (AsmReturned /\ Alternates(call.formatted_history)) =>
        LET history == call.formatted_history
            first == FirstLaterUser(history)
            dropped == Len(history) - Len(ret.history_to_append)
        IN  /\ ret.accepted = SubSeq(history, first, Len(history))
            /\ ret.skipped = {k \in 1..Len(ret.history_to_append) : k + dropped < first}
            /\ dropped = (IF history # <<>> /\ history[1].role = "user" THEN 1 ELSE 0)
            /\ first <= 3
            /\ Len(history) >= 2 =>
                   first = (IF history[1].role = "user" THEN 3 ELSE 2)
            /\ SubSeq(ret.final_prompt, 3, 2 + Len(ret.accepted)) = ret.accepted

C22_Witness ==
    /\ AsmReturned
    /\ RolesOf(call.formatted_history) = <<"user", "model", "user", "model", "user">>
    /\ RolesOf(ret.accepted) = <<"user", "model", "user">>
    /\ ret.skipped = {1}
    /\ Len(ret.history_to_append) = 4

====
